---- MODULE Spec2Model ----
(***************************************************************************)
(* Typed accessor layer of the config package: the key-path resolver       *)
(* (Config.Get), the coercing accessors (String, Ints, IntMap, Strings,    *)
(* StringMap, Structure), environment interpolation (parseEnvValue) and    *)
(* the per-kind result caches.                                             *)
(*                                                                         *)
(* A Go string is a sequence of one-character strings, so that trimming,   *)
(* splitting, parsing and formatting are computed and not assumed.         *)
(* A Go interface{} value is a record [t |-> dynamic type, v |-> payload]. *)
(* Slices are 1-based sequences here; Go index i is position i + 1.        *)
(***************************************************************************)
EXTENDS Integers, Sequences, FiniteSets, TLC

(***************************************************************************)
(* Bounds of the model.                                                    *)
(***************************************************************************)
\* longest slice held by the Value Store
MaxLen == 3

(***************************************************************************)
(* Go strings.                                                             *)
(***************************************************************************)
Digits == <<"0", "1", "2", "3", "4", "5", "6", "7", "8", "9">>
DigitChars == {Digits[i] : i \in 1..10}

\* unicode.IsSpace, for the characters of the model
WhiteSpace == {" ", "\t", "\n", "\r"}

RECURSIVE TrimLeftSet(_, _)
TrimLeftSet(s, cut) ==
    IF s # <<>> /\ Head(s) \in cut THEN TrimLeftSet(Tail(s), cut) ELSE s

RECURSIVE TrimRightSet(_, _)
TrimRightSet(s, cut) ==
    IF s # <<>> /\ s[Len(s)] \in cut
    THEN TrimRightSet(SubSeq(s, 1, Len(s) - 1), cut)
    ELSE s

\* strings.TrimSpace
TrimSpace(s) == TrimRightSet(TrimLeftSet(s, WhiteSpace), WhiteSpace)

\* strings.Trim(s, cutset)
Trim(s, cut) == TrimRightSet(TrimLeftSet(s, cut), cut)

\* strings.Contains(s, c) for a one-character separator c
Contains(s, c) == \E i \in 1..Len(s) : s[i] = c

\* position of the first c in s, 0 when there is none
RECURSIVE IndexFrom(_, _, _)
IndexFrom(s, c, i) ==
    IF i > Len(s) THEN 0
    ELSE IF s[i] = c THEN i
    ELSE IndexFrom(s, c, i + 1)

\* strings.Split(s, c) for a one-character separator c
RECURSIVE Split(_, _)
Split(s, c) ==
    LET i == IndexFrom(s, c, 1) IN
    IF i = 0 THEN <<s>>
    ELSE <<SubSeq(s, 1, i - 1)>> \o Split(SubSeq(s, i + 1, Len(s)), c)

\* strings.SplitN(s, c, 2)
SplitN2(s, c) ==
    LET i == IndexFrom(s, c, 1) IN
    IF i = 0 THEN <<s>>
    ELSE <<SubSeq(s, 1, i - 1), SubSeq(s, i + 1, Len(s))>>

DigitVal(c) == CHOOSE d \in 0..9 : Digits[d + 1] = c

RECURSIVE ParseDigits(_, _)
ParseDigits(s, acc) ==
    IF s = <<>> THEN acc
    ELSE ParseDigits(Tail(s), 10 * acc + DigitVal(Head(s)))

\* strconv.Atoi: an optional sign, then one or more decimal digits
Atoi(s) ==
    LET signed == s # <<>> /\ Head(s) \in {"+", "-"}
        body   == IF signed THEN Tail(s) ELSE s
    IN  IF body = <<>> \/ \E i \in 1..Len(body) : body[i] \notin DigitChars
        THEN [err |-> TRUE, i |-> 0]
        ELSE [err |-> FALSE,
              i   |-> IF signed /\ Head(s) = "-"
                      THEN 0 - ParseDigits(body, 0)
                      ELSE ParseDigits(body, 0)]

RECURSIVE NatStr(_)
NatStr(n) ==
    IF n < 10 THEN <<Digits[n + 1]>>
    ELSE NatStr(n \div 10) \o <<Digits[(n % 10) + 1]>>

\* strconv.Itoa, which is what fmt's %v prints for an integer
Itoa(n) == IF n < 0 THEN <<"-">> \o NatStr(0 - n) ELSE NatStr(n)

\* format key
formatKey(key) == Trim(TrimSpace(key), {"."})

(***************************************************************************)
(* Dynamically typed values.                                               *)
(***************************************************************************)
Nil        == [t |-> "nil", v |-> <<>>]
StrV(s)    == [t |-> "string", v |-> s]
IntV(i)    == [t |-> "int", v |-> i]
BoolV(b)   == [t |-> "bool", v |-> b]
\* a float64 holding a whole number, as encoding/json decodes an integer
FloatV(i)  == [t |-> "float64", v |-> i]
IntsV(q)   == [t |-> "[]int", v |-> q]
StrsV(q)   == [t |-> "[]string", v |-> q]
ArrV(q)    == [t |-> "[]interface{}", v |-> q]
SMapSV(f)  == [t |-> "map[string]string", v |-> f]
SMapIV(f)  == [t |-> "map[string]int", v |-> f]
SMapV(f)   == [t |-> "map[string]interface{}", v |-> f]
IMapV(f)   == [t |-> "map[interface{}]interface{}", v |-> f]

\* the empty Go map
NoEntries == [k \in {} |-> Nil]

(***************************************************************************)
(* Path Resolver: Config.Get.                                              *)
(* A result is [value, ok, fault, logged]: the two results of Get, whether *)
(* the call ended in a runtime panic, whether it called addError.          *)
(***************************************************************************)
Found(v)  == [value |-> v,   ok |-> TRUE,  fault |-> FALSE, logged |-> FALSE]
NotFound  == [value |-> Nil, ok |-> FALSE, fault |-> FALSE, logged |-> FALSE]
Failed    == [value |-> Nil, ok |-> FALSE, fault |-> FALSE, logged |-> TRUE]
\* index out of range: the goroutine panics, deferred calls still run
Panicked  == [value |-> Nil, ok |-> FALSE, fault |-> TRUE,  logged |-> FALSE]

\* the element of slice item at Go index i, as an interface{} value
ElemOf(item, i) ==
    CASE item.t = "[]int"         -> IntV(item.v[i + 1])
      [] item.t = "[]string"      -> StrV(item.v[i + 1])
      [] item.t = "[]interface{}" -> item.v[i + 1]

\* "err != nil || len(typeData) < i", the guard before typeData[i]
IndexRejected(a, n) == a.err \/ n < a.i

\* the walk of keys[1:] from the top item ("find child")
RECURSIVE WalkChild(_, _)
WalkChild(item, ks) ==
    IF ks = <<>> THEN Found(item)
    ELSE
    LET k == Head(ks) IN
    CASE item.t = "map[string]string" ->
            IF k \in DOMAIN item.v
            THEN WalkChild(StrV(item.v[k]), Tail(ks))
            ELSE NotFound
      [] item.t = "map[string]interface{}" ->
            IF k \in DOMAIN item.v
            THEN WalkChild(item.v[k], Tail(ks))
            ELSE NotFound
      [] item.t = "map[interface{}]interface{}" ->
            \* the key looked up is the interface value holding the string k
            IF StrV(k) \in DOMAIN item.v
            THEN WalkChild(item.v[StrV(k)], Tail(ks))
            ELSE NotFound
      [] item.t \in {"[]int", "[]string", "[]interface{}"} ->
            LET a == Atoi(k) IN
            IF IndexRejected(a, Len(item.v)) THEN Failed
            ELSE IF a.i < 0 \/ a.i >= Len(item.v) THEN Panicked
            ELSE WalkChild(ElemOf(item, a.i), Tail(ks))
      [] OTHER -> Failed

\* Get with the "is top key" lookup made only for a key without a dot
GetSplitsDottedKey(d, key0, findByPath) ==
    LET key == formatKey(key0) IN
    IF key = <<>> THEN Failed
    ELSE IF Len(findByPath) > 0 /\ ~findByPath[1]
         THEN IF key \in DOMAIN d /\ ~Contains(key, ".") THEN Found(d[key]) ELSE NotFound
    ELSE IF ~Contains(key, ".")
         THEN IF key \in DOMAIN d THEN Found(d[key]) ELSE NotFound
    ELSE
    LET keys == Split(key, ".")
        topK == keys[1]
    IN  IF topK \notin DOMAIN d THEN NotFound
        ELSE WalkChild(d[topK], Tail(keys))

\* Get(key, findByPath...) on Value Store d; findByPath is the variadic
\* argument as a sequence of booleans
Get(d, key0, findByPath) ==
    LET key == formatKey(key0) IN
    IF key = <<>> THEN Failed
    ELSE IF key \in DOMAIN d THEN Found(d[key])
    ELSE IF Len(findByPath) > 0 /\ ~findByPath[1] THEN NotFound
    ELSE IF ~Contains(key, ".") THEN NotFound
    ELSE
    LET keys == Split(key, ".")
        topK == keys[1]
    IN  IF topK \notin DOMAIN d THEN NotFound
        ELSE WalkChild(d[topK], Tail(keys))

(***************************************************************************)
(* fmt.Sprintf("%v", v).                                                   *)
(***************************************************************************)
\* the characters of the model in byte order, to sort map keys as fmt does
CharOrder ==
    <<"\t", "\n", "\r", " ", "$", "+", "-", ".",
      "0", "1", "2", "3", "4", "5", "6", "7", "8", "9", "<", ">",
      "A", "B", "D", "E", "N", "V", "X", "_",
      "a", "b", "c", "d", "e", "f", "i", "k", "l", "n", "p", "r", "s", "t",
      "u", "v", "x", "y", "{", "|", "}">>

Ord(c) == CHOOSE i \in 1..Len(CharOrder) : CharOrder[i] = c

\* byte-wise s < t
RECURSIVE StrLess(_, _)
StrLess(s, t) ==
    IF t = <<>> THEN FALSE
    ELSE IF s = <<>> THEN TRUE
    ELSE IF Head(s) # Head(t) THEN Ord(Head(s)) < Ord(Head(t))
    ELSE StrLess(Tail(s), Tail(t))

MinStr(S) == CHOOSE s \in S : \A t \in S \ {s} : StrLess(s, t)

RECURSIVE JoinSp(_)
JoinSp(parts) ==
    IF parts = <<>> THEN <<>>
    ELSE IF Len(parts) = 1 THEN parts[1]
    ELSE parts[1] \o <<" ">> \o JoinSp(Tail(parts))

RECURSIVE Sprintf(_)
RECURSIVE SprintfEntries(_, _)
\* the "k:v" texts of string-keyed map f restricted to keys, in key order
SprintfEntries(f, keys) ==
    IF keys = {} THEN <<>>
    ELSE LET k == MinStr(keys) IN
         <<k \o <<":">> \o Sprintf(f[k])>> \o SprintfEntries(f, keys \ {k})

Sprintf(val) ==
    CASE val.t = "string"  -> val.v
      [] val.t = "int"     -> Itoa(val.v)
      [] val.t = "float64" -> Itoa(val.v)
      [] val.t = "bool"    -> IF val.v THEN <<"t", "r", "u", "e">>
                              ELSE <<"f", "a", "l", "s", "e">>
      [] val.t = "nil"     -> <<"<", "n", "i", "l", ">">>
      [] val.t = "[]int" ->
            <<"[">> \o JoinSp([i \in 1..Len(val.v) |-> Itoa(val.v[i])]) \o <<"]">>
      [] val.t = "[]string" ->
            <<"[">> \o JoinSp(val.v) \o <<"]">>
      [] val.t = "[]interface{}" ->
            <<"[">> \o JoinSp([i \in 1..Len(val.v) |-> Sprintf(val.v[i])]) \o <<"]">>
      [] val.t = "map[string]interface{}" ->
            <<"m", "a", "p", "[">>
                \o JoinSp(SprintfEntries(val.v, DOMAIN val.v)) \o <<"]">>
      [] val.t = "map[string]string" ->
            <<"m", "a", "p", "[">>
                \o JoinSp(SprintfEntries([k \in DOMAIN val.v |-> StrV(val.v[k])],
                                         DOMAIN val.v)) \o <<"]">>
      [] val.t = "map[string]int" ->
            <<"m", "a", "p", "[">>
                \o JoinSp(SprintfEntries([k \in DOMAIN val.v |-> IntV(val.v[k])],
                                         DOMAIN val.v)) \o <<"]">>

(***************************************************************************)
(* Environment Interpolation: parseEnvValue.                               *)
(***************************************************************************)
\* the regexp class \w
WordChars ==
    {"a", "b", "c", "d", "e", "f", "g", "h", "i", "j", "k", "l", "m", "n",
     "o", "p", "q", "r", "s", "t", "u", "v", "w", "x", "y", "z",
     "A", "B", "C", "D", "E", "F", "G", "H", "I", "J", "K", "L", "M", "N",
     "O", "P", "Q", "R", "S", "T", "U", "V", "W", "X", "Y", "Z", "_"}
        \cup DigitChars

\* the class [\w-| ] of envRegex
EnvClass == WordChars \cup {"-", "|", " "}

\* s[i..] starts with t
HasPrefixAt(s, i, t) ==
    /\ i + Len(t) - 1 <= Len(s)
    /\ \A k \in 1..Len(t) : s[i + k - 1] = t[k]

\* first position >= i of s that holds no character of class, Len(s)+1 if none
RECURSIVE ClassRunEnd(_, _, _)
ClassRunEnd(s, i, class) ==
    IF i > Len(s) \/ s[i] \notin class THEN i
    ELSE ClassRunEnd(s, i + 1, class)

\* the end of the match of envRegex = \${([\w-| ]+)} that starts at i, or 0
envRegexMatchAt(s, i) ==
    IF ~HasPrefixAt(s, i, <<"$", "{">>) THEN 0
    ELSE LET j == ClassRunEnd(s, i + 2, EnvClass) IN
         IF j > i + 2 /\ j <= Len(s) /\ s[j] = "}" THEN j ELSE 0

\* envRegex.FindAllString(s, -1), scanning from position i
RECURSIVE FindAllFrom(_, _)
FindAllFrom(s, i) ==
    IF i > Len(s) THEN <<>>
    ELSE LET j == envRegexMatchAt(s, i) IN
         IF j = 0 THEN FindAllFrom(s, i + 1)
         ELSE <<SubSeq(s, i, j)>> \o FindAllFrom(s, j + 1)

\* os.Getenv: the empty string for a variable that is not set
Getenv(env, name) == IF name \in DOMAIN env THEN env[name] ELSE <<>>

\* the loop body with "def = fVar" left out: a token with one part and no
\* value in the environment becomes the empty string
EnvPairNoBareDefault(env, fVar) ==
    LET ss   == SplitN2(SubSeq(fVar, 3, Len(fVar) - 1), "|")
        name == IF Len(ss) = 2 THEN TrimSpace(ss[1]) ELSE ss[1]
        def  == IF Len(ss) = 2 THEN TrimSpace(ss[2]) ELSE <<>>
        got  == Getenv(env, name)
    IN  [old |-> fVar, new |-> IF got = <<>> THEN def ELSE got]

\* the body of the loop over vars: the pair (old, new) of one matched token;
\* a token with one part has itself as default and its name is not trimmed
EnvPair(env, fVar) ==
    LET ss   == SplitN2(SubSeq(fVar, 3, Len(fVar) - 1), "|")
        name == IF Len(ss) = 2 THEN TrimSpace(ss[1]) ELSE ss[1]
        def  == IF Len(ss) = 2 THEN TrimSpace(ss[2]) ELSE fVar
        got  == Getenv(env, name)
    IN  [old |-> fVar, new |-> IF got = <<>> THEN def ELSE got]

\* the first pair, in argument order, whose old string starts at s[i..]; 0 if none
RECURSIVE FirstPairAt(_, _, _, _)
FirstPairAt(s, i, pairs, n) ==
    IF n > Len(pairs) THEN 0
    ELSE IF HasPrefixAt(s, i, pairs[n].old) THEN n
    ELSE FirstPairAt(s, i, pairs, n + 1)

\* strings.NewReplacer(oldNew...).Replace(s): one pass, no overlapping
\* matches, replaced text is not scanned again
RECURSIVE ReplaceFrom(_, _, _)
ReplaceFrom(s, i, pairs) ==
    IF i > Len(s) THEN <<>>
    ELSE LET n == FirstPairAt(s, i, pairs, 1) IN
         IF n = 0 THEN <<s[i]>> \o ReplaceFrom(s, i + 1, pairs)
         ELSE pairs[n].new \o ReplaceFrom(s, i + Len(pairs[n].old), pairs)

\* is there a "${" in val
HasEnvMark(val) == \E i \in 1..Len(val) : HasPrefixAt(val, i, <<"$", "{">>)

parseEnvValue(env, val) ==
    IF ~HasEnvMark(val) THEN val
    ELSE LET vars == FindAllFrom(val, 1) IN
         IF Len(vars) = 0 THEN val
         ELSE ReplaceFrom(val, 1, [n \in 1..Len(vars) |-> EnvPair(env, vars[n])])

(***************************************************************************)
(* Type Coercion Layer.                                                    *)
(* An accessor result is [value, ok, fault, gets, cache]: the two results, *)
(* whether the call panicked, how many times it called Get, and the        *)
(* accessor's cache map after the call (nil and empty are both the empty   *)
(* function).                                                              *)
(***************************************************************************)
\* m[k] = v on a Go map
Put(m, k, v) == [x \in DOMAIN m \cup {k} |-> IF x = k THEN v ELSE m[x]]

Outcome(v, ok, fault, gets, cache) ==
    [value |-> v, ok |-> ok, fault |-> fault, gets |-> gets, cache |-> cache]

\* the guard with the length test turned round: len(cache) == 0
CacheHitOnEmpty(opts, cache, key) ==
    opts.EnableCache /\ DOMAIN cache = {} /\ key \in DOMAIN cache

\* "find from cache": the guard of the early return of String, Strings, StringMap
CacheHit(opts, cache, key) ==
    opts.EnableCache /\ DOMAIN cache # {} /\ key \in DOMAIN cache

\* the entry stored under the formatted key, while the lookup uses the key as given
AddCacheFormatted(opts, cache, key, v, ok) ==
    IF ok /\ opts.EnableCache THEN Put(cache, formatKey(key), v) ELSE cache

\* "add cache": the cache map after a call that ended with value v and ok
AddCache(opts, cache, key, v, ok) ==
    IF ok /\ opts.EnableCache THEN Put(cache, key, v) ELSE cache

\* the first case of the type switch of String
NumericTypes ==
    {"bool", "int", "uint", "int8", "uint8", "int16", "uint16", "int32",
     "uint64", "int64", "float32", "float64"}

\* the type switch of String on the resolved value
StringCoerce(opts, env, val) ==
    CASE val.t \in NumericTypes -> [value |-> Sprintf(val), ok |-> TRUE]
      [] val.t = "string" ->
            [value |-> IF opts.ParseEnv THEN parseEnvValue(env, Sprintf(val))
                       ELSE Sprintf(val),
             ok |-> TRUE]
      [] OTHER -> [value |-> <<>>, ok |-> FALSE]

String(d, opts, cache, env, key) ==
    IF CacheHit(opts, cache, key)
    THEN Outcome(StrV(cache[key]), TRUE, FALSE, 0, cache)
    ELSE
    LET g == Get(d, key, <<>>) IN
    IF ~g.ok THEN Outcome(StrV(<<>>), FALSE, g.fault, 1, cache)
    ELSE LET co == StringCoerce(opts, env, g.value) IN
         Outcome(StrV(co.value), co.ok, FALSE, 1,
                 AddCache(opts, cache, key, co.value, co.ok))

\* the elements of q converted by Atoi(Sprintf(v)) up to the first failure
RECURSIVE IntsPrefix(_)
IntsPrefix(q) ==
    IF q = <<>> THEN [arr |-> <<>>, ok |-> TRUE]
    ELSE LET a == Atoi(Sprintf(Head(q))) IN
         IF a.err THEN [arr |-> <<>>, ok |-> FALSE]
         ELSE LET rest == IntsPrefix(Tail(q)) IN
              [arr |-> <<a.i>> \o rest.arr, ok |-> rest.ok]

\* the type switch of Ints on the resolved value
IntsCoerce(val) ==
    CASE val.t = "[]int" -> [arr |-> val.v, ok |-> TRUE]
      [] val.t = "[]interface{}" -> IntsPrefix(val.v)
      [] OTHER -> [arr |-> <<>>, ok |-> FALSE]

Ints(d, key) ==
    LET g == Get(d, key, <<>>) IN
    IF ~g.ok THEN Outcome(IntsV(<<>>), FALSE, g.fault, 1, NoEntries)
    ELSE LET co == IntsCoerce(g.value) IN
         Outcome(IntsV(co.arr), co.ok, FALSE, 1, NoEntries)

\* the key a range loop stores an entry under: k itself for a map keyed by
\* string, fmt.Sprintf("%v", k) for a map keyed by interface{}
EntryKey(sprintfKeys, k) == IF sprintfKeys THEN Sprintf(k) ELSE k

\* the value a range loop stores: strconv.Atoi(fmt.Sprintf("%v", v)) in
\* IntMap, fmt.Sprintf("%v", v) in StringMap
EntryValue(toInt, v) == IF toInt THEN Atoi(Sprintf(v)).i ELSE Sprintf(v)

\* the maps a range loop over the entries of f at keys S can leave behind; Go
\* ranges over a map in no fixed order, so when two keys share a text either
\* entry may stay
RangeBuilt(f, S, sprintfKeys, toInt) ==
    LET SK == {EntryKey(sprintfKeys, k) : k \in S} IN
    {g \in [SK -> {EntryValue(toInt, f[k]) : k \in S}] :
        \A sk \in SK : \E k \in S :
            EntryKey(sprintfKeys, k) = sk /\ g[sk] = EntryValue(toInt, f[k])}

\* the range loops of IntMap: every map a run can hold when the loop ends,
\* either after the last entry or at the first value Atoi rejects
IntMapLoop(f, sprintfKeys) ==
    LET good == {k \in DOMAIN f : ~Atoi(Sprintf(f[k])).err} IN
    IF good = DOMAIN f
    THEN {[mp |-> g, ok |-> TRUE] : g \in RangeBuilt(f, DOMAIN f, sprintfKeys, TRUE)}
    ELSE UNION {{[mp |-> g, ok |-> FALSE] : g \in RangeBuilt(f, S, sprintfKeys, TRUE)} :
                    S \in SUBSET good}

\* the type switch of IntMap on the resolved value
IntMapCoerce(val) ==
    CASE val.t = "map[string]int" -> {[mp |-> val.v, ok |-> TRUE]}
      [] val.t = "map[string]interface{}" -> IntMapLoop(val.v, FALSE)
      [] val.t = "map[interface{}]interface{}" -> IntMapLoop(val.v, TRUE)
      [] OTHER -> {[mp |-> NoEntries, ok |-> FALSE]}

\* IntMap keeps no cache: every call resolves the path
IntMap(d, key) ==
    LET g == Get(d, key, <<>>) IN
    IF ~g.ok THEN {Outcome(SMapIV(NoEntries), FALSE, g.fault, 1, NoEntries)}
    ELSE {Outcome(SMapIV(co.mp), co.ok, FALSE, 1, NoEntries) :
              co \in IntMapCoerce(g.value)}

\* the type switch of Strings on the resolved value
StringsCoerce(val) ==
    CASE val.t = "[]string" -> [arr |-> val.v, ok |-> TRUE]
      [] val.t = "[]interface{}" ->
            [arr |-> [i \in 1..Len(val.v) |-> Sprintf(val.v[i])], ok |-> TRUE]
      [] OTHER -> [arr |-> <<>>, ok |-> FALSE]

Strings(d, opts, cache, key) ==
    IF CacheHit(opts, cache, key)
    THEN Outcome(StrsV(cache[key]), TRUE, FALSE, 0, cache)
    ELSE
    LET g == Get(d, key, <<>>) IN
    IF ~g.ok THEN Outcome(StrsV(<<>>), FALSE, g.fault, 1, cache)
    ELSE LET co == StringsCoerce(g.value) IN
         Outcome(StrsV(co.arr), co.ok, FALSE, 1,
                 AddCache(opts, cache, key, co.arr, co.ok))

\* the type switch of StringMap on the resolved value
StringMapCoerce(val) ==
    CASE val.t = "map[string]string" -> {[mp |-> val.v, ok |-> TRUE]}
      [] val.t = "map[string]interface{}" ->
            {[mp |-> g, ok |-> TRUE] :
                g \in RangeBuilt(val.v, DOMAIN val.v, FALSE, FALSE)}
      [] val.t = "map[interface{}]interface{}" ->
            {[mp |-> g, ok |-> TRUE] :
                g \in RangeBuilt(val.v, DOMAIN val.v, TRUE, FALSE)}
      [] OTHER -> {[mp |-> NoEntries, ok |-> FALSE]}

StringMap(d, opts, cache, key) ==
    IF CacheHit(opts, cache, key)
    THEN {Outcome(SMapSV(cache[key]), TRUE, FALSE, 0, cache)}
    ELSE
    LET g == Get(d, key, <<>>) IN
    IF ~g.ok THEN {Outcome(SMapSV(NoEntries), FALSE, g.fault, 1, cache)}
    ELSE {Outcome(SMapSV(co.mp), co.ok, FALSE, 1,
                  AddCache(opts, cache, key, co.mp, co.ok)) :
              co \in StringMapCoerce(g.value)}

(***************************************************************************)
(* Structure Mapping.                                                      *)
(***************************************************************************)
\* JSONEncoder (json.Marshal) fails on a map keyed by interface{}, at any depth
RECURSIVE JSONEncoderFails(_)
JSONEncoderFails(val) ==
    CASE val.t = "map[interface{}]interface{}" -> TRUE
      [] val.t = "[]interface{}" ->
            \E i \in 1..Len(val.v) : JSONEncoderFails(val.v[i])
      [] val.t = "map[string]interface{}" ->
            \E k \in DOMAIN val.v : JSONEncoderFails(val.v[k])
      [] OTHER -> FALSE

\* the kind of JSON text a value encodes to
JSONKind(val) ==
    CASE val.t = "string" -> "string"
      [] val.t \in {"int", "float64"} -> "number"
      [] val.t = "bool" -> "bool"
      [] val.t = "nil" -> "null"
      [] val.t \in {"[]int", "[]string", "[]interface{}"} -> "array"
      [] OTHER -> "object"

\* what the caller hands to Structure as v
Targets ==
    {"*struct", "*[]", "*string", "*int", "*interface{}", "struct"}

\* JSONDecoder (json.Unmarshal) of a text of the given kind into target
\* fails on anything but a pointer, and on a kind the target cannot hold
JSONDecoderFails(kind, target) ==
    CASE target = "struct" -> TRUE
      [] target = "*interface{}" -> FALSE
      [] kind = "null" -> FALSE
      [] kind = "object" -> target # "*struct"
      [] kind = "array" -> target # "*[]"
      [] kind = "string" -> target # "*string"
      [] kind = "number" -> target # "*int"
      [] kind = "bool" -> target # "*bool"

\* the error Structure returns after the round trip: "blob, err :=" declares
\* a second err inside the if block, and the final return yields the outer one
StructureErr(encFails, decFails) ==
    IF encFails THEN "encode" ELSE "nil"

\* [err, found, encFails, decFails, fault, gets, whole]: the returned error,
\* what happened inside, and whether c.data itself was the value encoded
Structure(d, key, target) ==
    LET whole == key = <<>>
        g     == IF whole THEN Found(SMapV(d)) ELSE Get(d, key, <<>>)
        enc   == g.ok /\ JSONEncoderFails(g.value)
        dec   == g.ok /\ ~enc /\ JSONDecoderFails(JSONKind(g.value), target)
    IN  [err      |-> IF g.ok THEN StructureErr(enc, dec) ELSE "nil",
         found    |-> g.ok,
         encFails |-> enc,
         decFails |-> dec,
         fault    |-> g.fault,
         gets     |-> IF whole THEN 0 ELSE 1,
         whole    |-> whole]

(***************************************************************************)
(* State.                                                                  *)
(***************************************************************************)
VARIABLES
    data,       \* c.data: the Value Store
    opts,       \* c.opts: Readonly, EnableCache, ParseEnv
    strCache,   \* c.strCache
    sArrCache,  \* c.sArrCache
    sMapCache,  \* c.sMapCache
    env,        \* the process environment
    last,       \* the last call made and what it returned
    seen,       \* history: the first successful accessor call since the Value
                \* Store last changed, as a sequence of no or one record
    threads,    \* goroutines inside an accessor: where each one stands
    lock,       \* c.lock: the goroutines holding RLock, and whether Lock is held
    writer,     \* the goroutine that changes the Value Store under Lock
    crashed,    \* the runtime ended the process (fatal error or panic)
    held,       \* the slice or map the caller got from its last accessor call,
                \* and which stored objects it is one and the same object with
    origin      \* per cache entry: the top-level key of the Value Store whose
                \* container the entry is, as a sequence of no or one key

vars == <<data, opts, strCache, sArrCache, sMapCache, env, last, seen,
          threads, lock, writer, crashed, held, origin>>

\* what the caller holds and what it is shared with, which a call that hands
\* out no slice or map leaves alone
heap == <<held, origin>>

\* the state of the goroutines, which a call made in one piece leaves alone
conc == <<threads, lock, writer, crashed>>

\* prior: what seen held for this accessor and key when the call began, as a
\* sequence of no or one value
Record(op, key, arg, out) ==
    [op |-> op, key |-> key, arg |-> arg, out |-> out,
     prior |-> IF seen # <<>> /\ seen[1].op = op /\ seen[1].key = key
               THEN <<seen[1].value>> ELSE <<>>]

NoCall == [op |-> "none", key |-> <<>>, arg |-> <<>>, out |-> Nil, prior |-> <<>>]

\* seen after a call of accessor op with key ended with out; kept only under
\* EnableCache, where the claims about repeated calls are stated
SeenAfter(op, key, out) ==
    IF opts.EnableCache /\ seen = <<>> /\ out.ok /\ ~out.fault
    THEN <<[op |-> op, key |-> key, value |-> out.value]>>
    ELSE seen

(***************************************************************************)
(* Goroutines.  An accessor call made by a goroutine passes through the    *)
(* places where it touches shared memory: "find" (the cache map is read),  *)
(* "get" (Get is entered, RLock is about to be taken), "walk" (Get reads   *)
(* the Value Store, the deferred RUnlock runs when it returns), "coerce"   *)
(* (the type switch and the loops over the resolved value), "encode"       *)
(* (Structure encodes and decodes the value), "add" (the cache map is      *)
(* written).                                                               *)
(***************************************************************************)
\* the reference types a resolved value can have: the goroutine holds the
\* container that lives in the Value Store
SeqTypes == {"[]int", "[]string", "[]interface{}"}
MapTypes == {"map[string]string", "map[string]int", "map[string]interface{}",
             "map[interface{}]interface{}"}
ContainerTypes == SeqTypes \cup MapTypes

\* goroutines calling accessors
NThreads == 2
Threads  == 1..NThreads

Idle == [pc |-> "idle", op |-> "none", key |-> <<>>, g |-> NotFound,
         out |-> [value |-> Nil, ok |-> FALSE]]

WriterIdle == [pc |-> "idle", key |-> <<>>, value |-> Nil]

\* the caller holds no slice or map
NoHandle == [value |-> Nil, ok |-> FALSE, store |-> <<>>, cache |-> <<>>]

InitConc ==
    /\ threads = [t \in Threads |-> Idle]
    /\ lock = [readers |-> {}, writer |-> FALSE]
    /\ writer = WriterIdle
    /\ crashed = FALSE
    /\ held = NoHandle
    /\ origin = [sArr |-> NoEntries, sMap |-> NoEntries]

(***************************************************************************)
(* The keys and values the resolver is exercised with.                     *)
(***************************************************************************)
kA    == <<"a">>
kAB   == <<"a", ".", "b">>
kSpA  == <<" ", "a">>
kADot == <<"a", ".">>
kB    == <<"b">>
kC    == <<"c">>
kD    == <<"d">>
kS    == <<"s">>
sX    == <<"x">>
sY    == <<"y">>

\* slices of length n, of each shape Get indexes
IntSlice(n) == IntsV([i \in 1..n |-> 10 + i])
StrSlice(n) == StrsV([i \in 1..n |-> <<"s", Digits[(i % 10) + 1]>>])
\* a decoded array whose even positions do not parse as integers
MixedArr(n) == ArrV([i \in 1..n |-> IF i % 2 = 1 THEN IntV(i) ELSE StrV(sX)])
\* a decoded array whose every element parses as an integer
NumArr(n)   == ArrV([i \in 1..n |-> IF i % 2 = 1 THEN StrV(Itoa(i)) ELSE FloatV(i)])

Slices == UNION {{IntSlice(n), StrSlice(n), MixedArr(n), NumArr(n)} : n \in 0..MaxLen}

Scalars == {StrV(sX), IntV(5), BoolV(TRUE)}

Maps ==
    {SMapSV([k \in {kB} |-> sX]),
     SMapIV([k \in {kB} |-> 5]),
     SMapV([k \in {kB, kC} |-> IF k = kB THEN IntV(1) ELSE StrV(<<"2">>)]),
     SMapV([k \in {kB, kC, kD} |-> IF k = kC THEN StrV(sX) ELSE IntV(3)]),
     SMapV([k \in {kB} |-> MixedArr(2)]),
     IMapV([k \in {StrV(kB), IntV(1)} |-> IF k = IntV(1) THEN StrV(sX) ELSE IntV(1)]),
     IMapV([k \in {StrV(<<"1">>), IntV(1)} |-> IF k = IntV(1) THEN IntV(10) ELSE IntV(20)])}

\* the values the cached accessors are exercised with
CacheValues ==
    {StrV(sX), StrV(sY), StrSlice(1), MixedArr(2),
     SMapSV([k \in {kB} |-> sX]),
     SMapV([k \in {kB} |-> IntV(1)])}

CacheKeys == {kS, <<" ", "s">>}

\* the values each top-level key of the model can hold
ValuesFor(k) ==
    CASE k = kA    -> Scalars \cup Slices \cup Maps
      [] k = kAB   -> {IntV(7)}
      [] k = kSpA  -> {StrV(sY)}
      [] k = kS    -> CacheValues

TopKeys == {kA, kAB, kSpA}

\* the key paths handed to the accessors
IndexPaths == {kA \o <<".">> \o Itoa(i) : i \in -1..(MaxLen + 1)}
PathKeys ==
    TopKeys \cup IndexPaths
        \cup {<<>>, <<".">>, kB, kADot, <<"a", ".", "c">>, <<"a", ".", "x">>, <<"a", ".", "1", "x">>,
              <<"a", ".", "b", ".", "1">>, <<"a", ".", "b", ".", "2">>,
              <<" ", "a", ".", "b", ".">>}

StructureKeys == {<<>>, kA, kB, <<"a", ".", "b", ".", "2">>}

FindByPathArgs == {<<>>, <<TRUE>>, <<FALSE>>}

(***************************************************************************)
(* Actions: one per operation, each the whole call.                        *)
(***************************************************************************)
\* the Value Store handed over by a decoder or changed by a set operation:
\* top-level key k is bound to v
LoadData(K) ==
    \E k \in K : \E v \in ValuesFor(k) :
        /\ data' = Put(data, k, v)
        /\ last' = Record("Load", k, <<>>, Nil)
        /\ seen' = <<>>
        /\ UNCHANGED <<opts, strCache, sArrCache, sMapCache, env>>
        /\ UNCHANGED conc
        /\ UNCHANGED heap

\* top-level key k is removed from the Value Store
DeleteData(K) ==
    \E k \in K \cap DOMAIN data :
        /\ data' = [x \in DOMAIN data \ {k} |-> data[x]]
        /\ last' = Record("Delete", k, <<>>, Nil)
        /\ seen' = <<>>
        /\ UNCHANGED <<opts, strCache, sArrCache, sMapCache, env>>
        /\ UNCHANGED conc
        /\ UNCHANGED heap

CallGet(K) ==
    \E key \in K : \E fbp \in FindByPathArgs :
        /\ last' = Record("Get", key, fbp, Get(data, key, fbp))
        /\ UNCHANGED <<data, opts, strCache, sArrCache, sMapCache, env, seen>>
        /\ UNCHANGED conc
        /\ UNCHANGED heap

CallString(K) ==
    \E key \in K :
        LET out == String(data, opts, strCache, env, key) IN
        /\ last' = Record("String", key, <<>>, out)
        /\ strCache' = out.cache
        /\ seen' = SeenAfter("String", key, out)
        /\ UNCHANGED <<data, opts, sArrCache, sMapCache, env>>
        /\ UNCHANGED conc
        /\ UNCHANGED heap

CallInts(K) ==
    \E key \in K :
        LET out == Ints(data, key) IN
        /\ last' = Record("Ints", key, <<>>, out)
        /\ seen' = SeenAfter("Ints", key, out)
        /\ UNCHANGED <<data, opts, strCache, sArrCache, sMapCache, env>>
        /\ UNCHANGED conc
        /\ UNCHANGED heap

CallIntMap(K) ==
    \E key \in K : \E out \in IntMap(data, key) :
        /\ last' = Record("IntMap", key, <<>>, out)
        /\ seen' = SeenAfter("IntMap", key, out)
        /\ UNCHANGED <<data, opts, strCache, sArrCache, sMapCache, env>>
        /\ UNCHANGED conc
        /\ UNCHANGED heap

CallStrings(K) ==
    \E key \in K :
        LET out == Strings(data, opts, sArrCache, key) IN
        /\ last' = Record("Strings", key, <<>>, out)
        /\ sArrCache' = out.cache
        /\ seen' = SeenAfter("Strings", key, out)
        /\ UNCHANGED <<data, opts, strCache, sMapCache, env>>
        /\ UNCHANGED conc
        /\ UNCHANGED heap

CallStringMap(K) ==
    \E key \in K : \E out \in StringMap(data, opts, sMapCache, key) :
        /\ last' = Record("StringMap", key, <<>>, out)
        /\ sMapCache' = out.cache
        /\ seen' = SeenAfter("StringMap", key, out)
        /\ UNCHANGED <<data, opts, strCache, sArrCache, env>>
        /\ UNCHANGED conc
        /\ UNCHANGED heap

CallStructure(K) ==
    \E key \in K : \E target \in Targets :
        /\ last' = Record("Structure", key, target, Structure(data, key, target))
        /\ UNCHANGED <<data, opts, strCache, sArrCache, sMapCache, env, seen>>
        /\ UNCHANGED conc
        /\ UNCHANGED heap

(***************************************************************************)
(* Spec: resolver and coercion, caching off.                               *)
(***************************************************************************)
Init ==
    /\ data = NoEntries
    /\ opts = [Readonly |-> FALSE, EnableCache |-> FALSE, ParseEnv |-> FALSE]
    /\ strCache = NoEntries
    /\ sArrCache = NoEntries
    /\ sMapCache = NoEntries
    /\ env = NoEntries
    /\ last = NoCall
    /\ seen = <<>>
    /\ InitConc

Next ==
    \/ LoadData(TopKeys)
    \/ DeleteData(TopKeys)
    \/ CallGet(PathKeys)
    \/ CallInts(PathKeys)
    \/ CallIntMap(PathKeys)
    \/ CallStructure(StructureKeys)

Spec == Init /\ [][Next]_vars

(***************************************************************************)
(* SpecCache: the accessors with EnableCache on, over a changing store.    *)
(***************************************************************************)
InitCache ==
    /\ data = NoEntries
    /\ opts = [Readonly |-> FALSE, EnableCache |-> TRUE, ParseEnv |-> FALSE]
    /\ strCache = NoEntries
    /\ sArrCache = NoEntries
    /\ sMapCache = NoEntries
    /\ env = NoEntries
    /\ last = NoCall
    /\ seen = <<>>
    /\ InitConc

NextCache ==
    \/ LoadData({kS})
    \/ DeleteData({kS})
    \/ CallString(CacheKeys)
    \/ CallStrings(CacheKeys)
    \/ CallStringMap(CacheKeys)
    \/ CallIntMap(CacheKeys)

SpecCache == InitCache /\ [][NextCache]_vars

(***************************************************************************)
(* SpecEnv: String on a stored string, over texts built from token-like    *)
(* fragments and over process environments.                                *)
(***************************************************************************)
\* most fragments in a stored string
MaxParts == 3

EnvX     == <<"E", "N", "V", "_", "X">>
Fallback == <<"f", "a", "l", "l", "b", "a", "c", "k">>
Tok(inner) == <<"$", "{">> \o inner \o <<"}">>

EnvFragments ==
    {Tok(EnvX),
     Tok(EnvX \o <<"|">> \o Fallback),
     Tok(<<" ">> \o EnvX \o <<" ", "|", " ", "d", " ">>),
     Tok(<<" ">> \o EnvX \o <<" ">>),
     Tok(EnvX \o <<"|", "b", "|", "c">>),
     Tok(<<"|", "d">>),
     Tok(EnvX \o <<".">>),
     <<"$", "{">> \o EnvX,
     <<"$", "{", "}">>,
     <<"x">>,
     <<"}">>}

RECURSIVE Concats(_)
\* the texts made of at most n fragments
Concats(n) ==
    IF n = 0 THEN {<<>>}
    ELSE LET shorter == Concats(n - 1) IN
         shorter \cup {s \o f : s \in shorter, f \in EnvFragments}

EnvInputs == Concats(MaxParts)

\* ENV_X unset, set, set to the empty string, set to a text that holds a token
Envs ==
    {NoEntries,
     [n \in {EnvX} |-> <<"v">>],
     [n \in {EnvX} |-> <<>>],
     [n \in {EnvX} |-> Tok(EnvX)]}

InitEnv ==
    /\ data \in {[k \in {kS} |-> StrV(s)] : s \in EnvInputs}
    /\ opts \in [Readonly : {FALSE}, EnableCache : {FALSE}, ParseEnv : BOOLEAN]
    /\ strCache = NoEntries
    /\ sArrCache = NoEntries
    /\ sMapCache = NoEntries
    /\ env \in Envs
    /\ last = NoCall
    /\ seen = <<>>
    /\ InitConc

NextEnv == CallString({kS})

SpecEnv == InitEnv /\ [][NextEnv]_vars

(***************************************************************************)
(* SpecConc: goroutines calling the accessors step by step while a writer  *)
(* changes nested containers of the Value Store in place under Lock.       *)
(***************************************************************************)
kL == <<"l">>
kM == <<"m">>


ConcData ==
    [k \in {kS, kL, kM} |->
        CASE k = kS -> StrV(sX)
          [] k = kL -> ArrV(<<IntV(1)>>)
          [] k = kM -> SMapV([x \in {kB} |-> IntV(1)])]

\* what the writer can make of the container under k: an element assigned,
\* an entry inserted or removed
SetValues(k) ==
    CASE k = kL -> {ArrV(<<IntV(1)>>), ArrV(<<StrV(sX)>>)}
      [] k = kM -> {SMapV([x \in {kB} |-> IntV(1)]),
                    SMapV([x \in {kB, kC} |-> IntV(1)])}

CachedOps == {"String", "Strings", "StringMap"}

ConcCalls ==
    {[op |-> "String",    key |-> kS],
     [op |-> "Strings",   key |-> kL],
     [op |-> "StringMap", key |-> kM],
     [op |-> "Ints",      key |-> kL],
     [op |-> "IntMap",    key |-> kM],
     [op |-> "Structure", key |-> <<>>],
     [op |-> "Structure", key |-> kM],
     [op |-> "Structure", key |-> <<".">>]}

CacheFor(op) ==
    CASE op = "String" -> strCache
      [] op = "Strings" -> sArrCache
      [] op = "StringMap" -> sMapCache

\* the results the type switch of accessor op can give on val
CoerceOutcomes(op, val) ==
    CASE op = "String" ->
            LET co == StringCoerce(opts, env, val) IN
            {[value |-> StrV(co.value), ok |-> co.ok]}
      [] op = "Strings" ->
            LET co == StringsCoerce(val) IN
            {[value |-> StrsV(co.arr), ok |-> co.ok]}
      [] op = "StringMap" ->
            {[value |-> SMapSV(co.mp), ok |-> co.ok] : co \in StringMapCoerce(val)}
      [] op = "Ints" ->
            LET co == IntsCoerce(val) IN
            {[value |-> IntsV(co.arr), ok |-> co.ok]}
      [] op = "IntMap" ->
            {[value |-> SMapIV(co.mp), ok |-> co.ok] : co \in IntMapCoerce(val)}

\* the call of goroutine t returns to its caller
Return(t) ==
    /\ threads' = [threads EXCEPT ![t] = Idle]
    /\ UNCHANGED last

\* goroutine t moves on inside its call
Goto(t, pc, g, out) ==
    /\ threads' = [threads EXCEPT ![t] = [@ EXCEPT !.pc = pc, !.g = g, !.out = out]]
    /\ UNCHANGED last

\* the value a goroutine holds is the container itself, not a copy of it
Aliases(val) == val.t \in ContainerTypes

\* the writer is in the middle of changing the container that val aliases
WriteInProgress(key, val) ==
    /\ writer.pc = "writing"
    /\ Aliases(val)
    /\ \/ key = <<>>
       \/ writer.key = formatKey(key)

\* what a goroutine can read through val now: a plain value as it was
\* resolved, a container as it is now, and during a write either the old or
\* the new content
Views(key, val) ==
    IF ~Aliases(val) THEN {val}
    ELSE LET cur == IF key = <<>> THEN SMapV(data) ELSE data[formatKey(key)] IN
         IF ~WriteInProgress(key, val) THEN {cur}
         ELSE IF key = <<>>
              THEN {cur, SMapV(Put(data, writer.key, writer.value))}
              ELSE {cur, writer.value}

\* the runtime may end the process when a map is read while it is written
MayCrashOnRead(key, val) ==
    /\ WriteInProgress(key, val)
    /\ writer.value.t \in MapTypes

\* another goroutine is inside the cache map of accessor op
OthersInCache(t, op, pcs) ==
    \E u \in Threads \ {t} : threads[u].op = op /\ threads[u].pc \in pcs

\* an accessor is called: String, Strings and StringMap look into their cache
\* first when EnableCache is on, Structure with an empty key takes c.data
Enter(t) ==
    /\ ~crashed
    /\ threads[t].pc = "idle"
    /\ \E c \in ConcCalls :
        threads' = [threads EXCEPT ![t] =
            [pc  |-> IF c.op = "Structure" /\ c.key = <<>> THEN "encode"
                     ELSE IF c.op \in CachedOps /\ opts.EnableCache THEN "find"
                     ELSE "get",
             op  |-> c.op,
             key |-> c.key,
             g   |-> IF c.op = "Structure" /\ c.key = <<>>
                     THEN Found(SMapV(data)) ELSE NotFound,
             out |-> Idle.out]]
    /\ UNCHANGED heap
    /\ UNCHANGED <<data, opts, strCache, sArrCache, sMapCache, env, last, seen,
                   lock, writer, crashed>>

\* "find from cache": len(cache) and cache[key] are read with no lock held
FindCache(t) ==
    LET th == threads[t] IN
    /\ ~crashed
    /\ th.pc = "find"
    /\ \/ /\ IF CacheHit(opts, CacheFor(th.op), th.key)
             THEN Return(t)
             ELSE Goto(t, "get", th.g, th.out)
          /\ UNCHANGED crashed
       \/ /\ OthersInCache(t, th.op, {"add"})
          /\ crashed' = TRUE
          /\ UNCHANGED <<threads, last>>
    /\ UNCHANGED heap
    /\ UNCHANGED <<data, opts, strCache, sArrCache, sMapCache, env, seen,
                   lock, writer>>

\* Get up to the lock: an empty formatted key returns at once, otherwise
\* RLock is taken unless the Config is read-only
GetRLock(t) ==
    LET th == threads[t] IN
    /\ ~crashed
    /\ th.pc = "get"
    /\ IF formatKey(th.key) = <<>>
       THEN /\ Return(t)
            /\ UNCHANGED lock
       ELSE /\ opts.Readonly \/ ~lock.writer
            /\ Goto(t, "walk", th.g, th.out)
            /\ lock' = IF opts.Readonly THEN lock
                       ELSE [lock EXCEPT !.readers = @ \cup {t}]
    /\ UNCHANGED heap
    /\ UNCHANGED <<data, opts, strCache, sArrCache, sMapCache, env, seen,
                   writer, crashed>>

\* the rest of Get: the lookup and the walk, then the deferred RUnlock
GetWalk(t) ==
    LET th == threads[t]
        g  == Get(data, th.key, <<>>)
    IN
    /\ ~crashed
    /\ th.pc = "walk"
    /\ lock' = [lock EXCEPT !.readers = @ \ {t}]
    /\ IF g.fault
       THEN crashed' = TRUE /\ UNCHANGED <<threads, last>>
       ELSE /\ UNCHANGED crashed
            /\ IF ~g.ok
               THEN Return(t)
               ELSE Goto(t, IF th.op = "Structure" THEN "encode" ELSE "coerce",
                         g, th.out)
    /\ UNCHANGED heap
    /\ UNCHANGED <<data, opts, strCache, sArrCache, sMapCache, env, seen, writer>>

\* the type switch on the value Get returned, and the loops over it
Coerce(t) ==
    LET th == threads[t] IN
    /\ ~crashed
    /\ th.pc = "coerce"
    /\ \/ /\ \E val \in Views(th.key, th.g.value) :
             \E co \in CoerceOutcomes(th.op, val) :
                IF co.ok /\ opts.EnableCache /\ th.op \in CachedOps
                THEN Goto(t, "add", th.g, co)
                ELSE Return(t)
          /\ UNCHANGED crashed
       \/ /\ MayCrashOnRead(th.key, th.g.value)
          /\ crashed' = TRUE
          /\ UNCHANGED <<threads, last>>
    /\ UNCHANGED heap
    /\ UNCHANGED <<data, opts, strCache, sArrCache, sMapCache, env, seen,
                   lock, writer>>

\* Structure after the value is in hand: JSONEncoder walks it, JSONDecoder
\* fills v
Encode(t) ==
    LET th == threads[t] IN
    /\ ~crashed
    /\ th.pc = "encode"
    /\ \/ /\ Return(t)
          /\ UNCHANGED crashed
       \/ /\ MayCrashOnRead(th.key, th.g.value)
          /\ crashed' = TRUE
          /\ UNCHANGED <<threads, last>>
    /\ UNCHANGED heap
    /\ UNCHANGED <<data, opts, strCache, sArrCache, sMapCache, env, seen,
                   lock, writer>>

\* "add cache": the map is made when nil and the entry stored, no lock held
AddCacheEntry(t) ==
    LET th  == threads[t]
        new == AddCache(opts, CacheFor(th.op), th.key, th.out.value.v, th.out.ok)
    IN
    /\ ~crashed
    /\ th.pc = "add"
    /\ \/ /\ strCache' = IF th.op = "String" THEN new ELSE strCache
          /\ sArrCache' = IF th.op = "Strings" THEN new ELSE sArrCache
          /\ sMapCache' = IF th.op = "StringMap" THEN new ELSE sMapCache
          /\ Return(t)
          /\ UNCHANGED crashed
       \/ /\ OthersInCache(t, th.op, {"find", "add"})
          /\ crashed' = TRUE
          /\ UNCHANGED <<threads, last, strCache, sArrCache, sMapCache>>
    /\ UNCHANGED heap
    /\ UNCHANGED <<data, opts, env, seen, lock, writer>>

\* a set operation begins: Lock is taken, refused on a read-only Config
BeginSet ==
    /\ ~crashed
    /\ ~opts.Readonly
    /\ writer.pc = "idle"
    /\ lock.readers = {} /\ ~lock.writer
    /\ \E k \in {kL, kM} : \E v \in SetValues(k) \ {data[k]} :
        writer' = [pc |-> "writing", key |-> k, value |-> v]
    /\ lock' = [lock EXCEPT !.writer = TRUE]
    /\ UNCHANGED heap
    /\ UNCHANGED <<data, opts, strCache, sArrCache, sMapCache, env, last, seen,
                   threads, crashed>>

\* the set operation ends: the container holds the new content, Unlock
EndSet ==
    /\ ~crashed
    /\ writer.pc = "writing"
    /\ data' = Put(data, writer.key, writer.value)
    /\ writer' = WriterIdle
    /\ lock' = [lock EXCEPT !.writer = FALSE]
    /\ UNCHANGED heap
    /\ UNCHANGED <<opts, strCache, sArrCache, sMapCache, env, last, seen,
                   threads, crashed>>

InitConcurrent ==
    /\ data = ConcData
    /\ opts \in [Readonly : BOOLEAN, EnableCache : BOOLEAN, ParseEnv : {FALSE}]
    /\ strCache = NoEntries
    /\ sArrCache = NoEntries
    /\ sMapCache = NoEntries
    /\ env = NoEntries
    /\ last = NoCall
    /\ seen = <<>>
    /\ InitConc

NextConc ==
    \/ \E t \in Threads : Enter(t)
    \/ \E t \in Threads : FindCache(t)
    \/ \E t \in Threads : GetRLock(t)
    \/ \E t \in Threads : GetWalk(t)
    \/ \E t \in Threads : Coerce(t)
    \/ \E t \in Threads : Encode(t)
    \/ \E t \in Threads : AddCacheEntry(t)
    \/ BeginSet
    \/ EndSet

SpecConc == InitConcurrent /\ [][NextConc]_vars

(***************************************************************************)
(* SpecShare: the caller keeps the slice or map an accessor returned and   *)
(* writes into it.  A Go slice or map is a reference: "arr = typeData"     *)
(* returns the container of the Value Store itself, "c.sArrCache[key] =    *)
(* arr" stores the returned object itself, and a cache hit returns the     *)
(* stored object.                                                          *)
(***************************************************************************)
kLi == <<"l", "i">>
kLs == <<"l", "s">>
kMs == <<"m", "s">>
kMi == <<"m", "i">>

\* one container of every shape Ints, Strings, StringMap and IntMap accept
ShareData ==
    [k \in {kLi, kLs, kMs, kMi, kL, kM} |->
        CASE k = kLi -> IntsV(<<11, 12>>)
          [] k = kLs -> StrsV(<<sX, sX>>)
          [] k = kMs -> SMapSV([x \in {kB} |-> sX])
          [] k = kMi -> SMapIV([x \in {kB} |-> 5])
          [] k = kL  -> ArrV(<<IntV(1), StrV(<<"2">>)>>)
          [] k = kM  -> SMapV([x \in {kB} |-> IntV(1)])]

\* the keys the accessors are called with: the top-level keys, one of them
\* also with leading white space
ShareKeys == DOMAIN ShareData \cup {<<" ", "l", "s">>}

\* the result is the container Get returned, not a copy: "arr = typeData",
\* "mp = typeData"
ReturnsResolved(op, val) ==
    CASE op = "Ints"      -> val.t = "[]int"
      [] op = "IntMap"    -> val.t = "map[string]int"
      [] op = "Strings"   -> val.t = "[]string"
      [] op = "StringMap" -> val.t = "map[string]string"

\* the handle on the result of a call of op with key that ended with out;
\* hit: the call was answered from cache, whose entries' origins are from
StoreShared(op, key, out, hit, from) ==
    IF hit THEN from[key]
    ELSE LET g == Get(data, key, <<>>) IN
         IF out.ok /\ g.ok /\ ReturnsResolved(op, g.value)
         THEN <<formatKey(key)>> ELSE <<>>

Handle(op, key, out, hit, from) ==
    [value |-> out.value,
     ok    |-> out.ok,
     store |-> StoreShared(op, key, out, hit, from),
     cache |-> IF op \in CachedOps /\ key \in DOMAIN out.cache
               THEN <<key>> ELSE <<>>]

\* the origins of a cache after the call: an entry added by the call is the
\* object the call returned
OriginAfter(op, key, out, hit, from) ==
    IF ~hit /\ key \in DOMAIN out.cache
    THEN Put(from, key, StoreShared(op, key, out, hit, from))
    ELSE from

HeldInts(K) ==
    \E key \in K :
        LET out == Ints(data, key) IN
        /\ last' = Record("Ints", key, <<>>, out)
        /\ held' = Handle("Ints", key, out, FALSE, NoEntries)
        /\ UNCHANGED <<data, opts, strCache, sArrCache, sMapCache, env, seen, origin>>
        /\ UNCHANGED conc

HeldIntMap(K) ==
    \E key \in K : \E out \in IntMap(data, key) :
        /\ last' = Record("IntMap", key, <<>>, out)
        /\ held' = Handle("IntMap", key, out, FALSE, NoEntries)
        /\ UNCHANGED <<data, opts, strCache, sArrCache, sMapCache, env, seen, origin>>
        /\ UNCHANGED conc

HeldStrings(K) ==
    \E key \in K :
        LET hit == CacheHit(opts, sArrCache, key)
            out == Strings(data, opts, sArrCache, key)
        IN
        /\ last' = Record("Strings", key, <<>>, out)
        /\ sArrCache' = out.cache
        /\ held' = Handle("Strings", key, out, hit, origin.sArr)
        /\ origin' = [origin EXCEPT
                        !.sArr = OriginAfter("Strings", key, out, hit, origin.sArr)]
        /\ UNCHANGED <<data, opts, strCache, sMapCache, env, seen>>
        /\ UNCHANGED conc

HeldStringMap(K) ==
    \E key \in K :
        LET hit == CacheHit(opts, sMapCache, key) IN
        \E out \in StringMap(data, opts, sMapCache, key) :
        /\ last' = Record("StringMap", key, <<>>, out)
        /\ sMapCache' = out.cache
        /\ held' = Handle("StringMap", key, out, hit, origin.sMap)
        /\ origin' = [origin EXCEPT
                        !.sMap = OriginAfter("StringMap", key, out, hit, origin.sMap)]
        /\ UNCHANGED <<data, opts, strCache, sArrCache, env, seen>>
        /\ UNCHANGED conc

\* what the caller can make of the collection it holds: arr[0] = 99 or "y",
\* mp["b"] = 99 or "y"
Written(val) ==
    CASE val.t = "[]int" /\ Len(val.v) > 0 ->
            {IntsV([val.v EXCEPT ![1] = 99])}
      [] val.t = "[]string" /\ Len(val.v) > 0 ->
            {StrsV([val.v EXCEPT ![1] = sY])}
      [] val.t = "map[string]int" /\ DOMAIN val.v # {} ->
            {SMapIV(Put(val.v, kB, 99))}
      [] val.t = "map[string]string" /\ DOMAIN val.v # {} ->
            {SMapSV(Put(val.v, kB, sY))}
      [] OTHER -> {}

\* cache after a write that made the held object new: the entry the caller
\* holds and every entry that is the written container of the Value Store
CacheWritten(cache, from, kind, new) ==
    [ck \in DOMAIN cache |->
        IF /\ new.t = kind
           /\ \/ held.cache = <<ck>>
              \/ (held.store # <<>> /\ from[ck] = held.store)
        THEN new.v ELSE cache[ck]]

\* the caller writes into the slice or map it holds: every stored object that
\* is the same object changes with it
WriteResult ==
    /\ held.ok
    /\ \E new \in Written(held.value) \ {held.value} :
        /\ held' = [held EXCEPT !.value = new]
        /\ data' = IF held.store # <<>> THEN Put(data, held.store[1], new)
                   ELSE data
        /\ sArrCache' = CacheWritten(sArrCache, origin.sArr, "[]string", new)
        /\ sMapCache' = CacheWritten(sMapCache, origin.sMap, "map[string]string", new)
        /\ last' = Record("Write", <<>>, <<>>,
                          [data |-> data, sArrCache |-> sArrCache,
                           sMapCache |-> sMapCache])
    /\ UNCHANGED <<opts, strCache, env, seen, origin>>
    /\ UNCHANGED conc

InitShare ==
    /\ data = ShareData
    /\ opts \in [Readonly : {FALSE}, EnableCache : BOOLEAN, ParseEnv : {FALSE}]
    /\ strCache = NoEntries
    /\ sArrCache = NoEntries
    /\ sMapCache = NoEntries
    /\ env = NoEntries
    /\ last = NoCall
    /\ seen = <<>>
    /\ InitConc

NextShare ==
    \/ HeldInts(ShareKeys)
    \/ HeldIntMap(ShareKeys)
    \/ HeldStrings(ShareKeys)
    \/ HeldStringMap(ShareKeys)
    \/ WriteResult

SpecShare == InitShare /\ [][NextShare]_vars

(***************************************************************************)
(* Properties of the resolver and of coercion (Spec).                      *)
(***************************************************************************)

\* the last call was a Get that went past the top-level lookup into the walk
WalkedGet ==
    /\ last.op = "Get"
    /\ formatKey(last.key) # <<>>
    /\ formatKey(last.key) \notin DOMAIN data
    /\ ~(Len(last.arg) > 0 /\ ~last.arg[1])
    /\ Contains(formatKey(last.key), ".")
    /\ Split(formatKey(last.key), ".")[1] \in DOMAIN data

LastSegs == Split(formatKey(last.key), ".")
\* the node the walk stands on when it takes the last segment of the path
LastNode == WalkChild(data[LastSegs[1]], SubSeq(LastSegs, 2, Len(LastSegs) - 1))
LastSeg  == LastSegs[Len(LastSegs)]

\* C1: when the walk of Get stands on a slice of length n and the next
\* segment is s, Get descends to element i exactly when s parses as an
\* integer i with 0 <= i < n; for any other s it returns ok = false and does
\* not panic.
C1_SequenceIndexing ==
    (WalkedGet /\ LastNode.ok /\ LastNode.value.t \in SeqTypes) =>
        LET a == Atoi(LastSeg)
            n == Len(LastNode.value.v)
        IN  IF ~a.err /\ 0 <= a.i /\ a.i < n
            THEN last.out = Found(ElemOf(LastNode.value, a.i))
            ELSE ~last.out.ok /\ ~last.out.fault

\* C2: Structure returns a non-nil error whenever the value was found and
\* either the encoding or the decoding of the round trip failed.
C2_StructureReportsFailure ==
    (last.op = "Structure" /\ last.out.found
        /\ (last.out.encFails \/ last.out.decFails)) =>
        last.out.err # "nil"

\* C6 as claimed: Get(k) returns the value stored under k, with ok = true,
\* for every non-empty top-level key k of the Value Store, whatever
\* characters k begins or ends with.
C6_AnyTopLevelKey ==
    (last.op = "Get" /\ last.key # <<>> /\ last.key \in DOMAIN data) =>
        last.out = Found(data[last.key])

\* C6 as amended: Get(k) returns the value stored under k, with ok = true,
\* for every non-empty top-level key k that formatKey leaves unchanged (no
\* leading or trailing white space or dot; dots inside k are allowed),
\* whatever findByPath is.
C6_NormalisedTopLevelKey ==
    (last.op = "Get" /\ last.key # <<>> /\ last.key \in DOMAIN data
        /\ formatKey(last.key) = last.key) =>
        last.out = Found(data[last.key])

\* a dotted top-level key was resolved verbatim, with path search disabled
C6_Witness ==
    /\ last.op = "Get"
    /\ last.key = kAB
    /\ kAB \in DOMAIN data
    /\ kA \notin DOMAIN data
    /\ last.arg = <<FALSE>>
    /\ last.out = Found(IntV(7))

\* the values of mapping m whose key, written as text, is seg
MapEntries(m, seg) ==
    CASE m.t = "map[string]string" ->
            {StrV(m.v[k]) : k \in {x \in DOMAIN m.v : x = seg}}
      [] m.t = "map[string]int" ->
            {IntV(m.v[k]) : k \in {x \in DOMAIN m.v : x = seg}}
      [] m.t = "map[string]interface{}" ->
            {m.v[k] : k \in {x \in DOMAIN m.v : x = seg}}
      [] m.t = "map[interface{}]interface{}" ->
            {m.v[k] : k \in {x \in DOMAIN m.v : Sprintf(x) = seg}}

\* C7: for a path "a.b" that is not itself a top-level key, where top-level
\* key a holds a mapping of any supported shape with an entry whose key reads
\* b, Get("a.b") returns that entry's value with ok = true.
C7_NestedMappingLookup ==
    (WalkedGet /\ last.arg = <<>> /\ Len(LastSegs) = 2
        /\ data[LastSegs[1]].t \in MapTypes
        /\ MapEntries(data[LastSegs[1]], LastSeg) # {}) =>
        /\ last.out.ok
        /\ last.out.value \in MapEntries(data[LastSegs[1]], LastSeg)

\* C9: when an element (Ints) or a map value (IntMap) of the resolved
\* container does not parse as a base-10 integer, the accessor returns
\* ok = false and an empty collection.
C9_NoPartialResult ==
    LET g == Get(data, last.key, <<>>) IN
    (/\ last.op \in {"Ints", "IntMap"}
     /\ g.ok
     /\ \/ /\ last.op = "Ints" /\ g.value.t = "[]interface{}"
           /\ \E i \in 1..Len(g.value.v) : Atoi(Sprintf(g.value.v[i])).err
        \/ /\ last.op = "IntMap"
           /\ g.value.t \in {"map[string]interface{}", "map[interface{}]interface{}"}
           /\ \E k \in DOMAIN g.value.v : Atoi(Sprintf(g.value.v[k])).err) =>
        /\ ~last.out.ok
        /\ last.out.value.v = <<>>

(***************************************************************************)
(* Properties of the result caches (SpecCache).                            *)
(***************************************************************************)
\* the call repeats an earlier successful call of the same accessor with the
\* same key, the Value Store unchanged in between, and answers from the cache
AnsweredFromCache ==
    /\ last.out.ok
    /\ last.out.value = last.prior[1]
    /\ last.out.gets = 0

Kept(cache, next) ==
    \A p \in DOMAIN cache : p \in DOMAIN next /\ next[p] = cache[p]

\* C4: with EnableCache on, whatever step is taken (a change of the Value
\* Store or an accessor call), every cache entry stays as it is, and a call
\* of String, Strings or StringMap with a key that has an entry returns the
\* entry with ok = true.
C4_CacheNeverInvalidated ==
    [][/\ Kept(strCache, strCache')
       /\ Kept(sArrCache, sArrCache')
       /\ Kept(sMapCache, sMapCache')
       /\ (last'.op = "String" /\ last'.key \in DOMAIN strCache) =>
            (last'.out.ok /\ last'.out.value = StrV(strCache[last'.key]))
       /\ (last'.op = "Strings" /\ last'.key \in DOMAIN sArrCache) =>
            (last'.out.ok /\ last'.out.value = StrsV(sArrCache[last'.key]))
       /\ (last'.op = "StringMap" /\ last'.key \in DOMAIN sMapCache) =>
            (last'.out.ok /\ last'.out.value = SMapSV(sMapCache[last'.key]))
      ]_vars

\* String returns the cached "x" although the key now holds "y"
C4_Witness ==
    /\ last.op = "String"
    /\ last.key = kS
    /\ last.out.ok
    /\ last.out.value = StrV(sX)
    /\ kS \in DOMAIN data
    /\ data[kS] = StrV(sY)

(***************************************************************************)
(* Properties of environment interpolation (SpecEnv).                      *)
(***************************************************************************)
\* s[i..j] reads ${...} with one or more characters of [\w-| ] inside
IsToken(s, i, j) ==
    /\ i + 3 <= j /\ j <= Len(s)
    /\ s[i] = "$" /\ s[i + 1] = "{" /\ s[j] = "}"
    /\ \A k \in (i + 2)..(j - 1) : s[k] \in EnvClass

\* what the claim puts in place of token tok
TokenValue(e, tok) ==
    LET inner == SubSeq(tok, 3, Len(tok) - 1)
        bar   == IndexFrom(inner, "|", 1)
        name  == IF bar = 0 THEN inner ELSE TrimSpace(SubSeq(inner, 1, bar - 1))
        def   == IF bar = 0 THEN tok
                 ELSE TrimSpace(SubSeq(inner, bar + 1, Len(inner)))
    IN  IF name \in DOMAIN e /\ e[name] # <<>> THEN e[name] ELSE def

\* s with every token replaced by its value, everything else as it is
RECURSIVE Interpolated(_, _)
Interpolated(e, s) ==
    IF s = <<>> THEN <<>>
    ELSE IF \E j \in 1..Len(s) : IsToken(s, 1, j)
    THEN LET j == CHOOSE x \in 1..Len(s) : IsToken(s, 1, x) IN
         TokenValue(e, SubSeq(s, 1, j)) \o Interpolated(e, SubSeq(s, j + 1, Len(s)))
    ELSE <<Head(s)>> \o Interpolated(e, Tail(s))

\* C8: with ParseEnv on, String replaces every token ${NAME|default} of the
\* resolved string by the value of NAME (trimmed) when it is not empty and
\* by the trimmed default otherwise, every token ${NAME} by the value of NAME
\* when it is not empty and leaves it as it is otherwise, and changes nothing
\* outside tokens; "${ENV_X|fallback}" gives "fallback" with ENV_X unset and
\* "v" with ENV_X = "v".
C8_EnvInterpolation ==
    (last.op = "String" /\ opts.ParseEnv /\ data[last.key].t = "string") =>
        /\ last.out.ok
        /\ last.out.value = StrV(Interpolated(env, data[last.key].v))
        /\ data[last.key].v = Tok(EnvX \o <<"|">> \o Fallback) =>
            /\ EnvX \notin DOMAIN env => last.out.value = StrV(Fallback)
            /\ (EnvX \in DOMAIN env /\ env[EnvX] = <<"v">>) =>
                    last.out.value = StrV(<<"v">>)

\* a text with a defaulted token, a bare token and plain text, ENV_X unset:
\* the default is used, the bare token stays, the text stays
C8_Witness ==
    /\ last.op = "String"
    /\ opts.ParseEnv
    /\ env = NoEntries
    /\ data[kS].v = Tok(EnvX \o <<"|">> \o Fallback) \o <<"x">> \o Tok(EnvX)
    /\ last.out.value = StrV(Fallback \o <<"x">> \o Tok(EnvX))

(***************************************************************************)
(* Properties of the goroutines (SpecConc).                                *)
(***************************************************************************)
\* C5: with EnableCache on, no state is reachable in which one goroutine
\* writes (or lazily creates) the cache map of String, Strings or StringMap
\* while another goroutine reads or writes that same cache map.
C5_CacheAccessExclusive ==
    opts.EnableCache =>
        \A t \in Threads :
            (threads[t].pc = "add" /\ threads[t].op \in CachedOps) =>
                ~OthersInCache(t, threads[t].op, {"find", "add"})

\* goroutine t is reading the Value Store: the walk of Get, or a loop or an
\* encoding over c.data or over a container that lives in it
ReadsStore(t) ==
    \/ threads[t].pc = "walk"
    \/ /\ threads[t].pc \in {"coerce", "encode"}
       /\ Aliases(threads[t].g.value)

\* C10: when the Config is not read-only, every goroutine reading the Value
\* Store (the walk of Get, the whole-store read of Structure with an empty
\* key, the loops and encodings over nested containers) holds the read lock
\* and no writer is changing the store meanwhile; and a goroutine that is
\* not inside Get holds no read lock.
C10_LockDiscipline ==
    ~opts.Readonly =>
        \A t \in Threads :
            /\ ReadsStore(t) => (t \in lock.readers /\ writer.pc # "writing")
            /\ t \in lock.readers => threads[t].pc = "walk"

(***************************************************************************)
(* Properties of returned collections (SpecShare).                         *)
(***************************************************************************)
\* C11: the slice or map returned by Ints, Strings, StringMap or IntMap
\* shares no mutable state with the Value Store or the caches: after the
\* caller wrote into it, the Value Store and every cache entry are as they
\* were before the write.
C11_ResultSharesNothing ==
    last.op = "Write" =>
        /\ data = last.out.data
        /\ sArrCache = last.out.sArrCache
        /\ sMapCache = last.out.sMapCache

====
